---- MODULE Spec2Model ----
(***************************************************************************)
(* Keccak-f[1600] permutation circuit: the sequencer of                    *)
(* keccak256/src/permutation/circuit.rs (KeccakFConfig) and the rho step   *)
(* of keccak256/src/gates/rho.rs (RhoConfig).                              *)
(*                                                                         *)
(* A lane is a record [cell, base, bits]: the assigned cell that holds it, *)
(* the numeral base of its encoding and the set of bit positions (0 = the  *)
(* least significant digit) whose digit is 1.  A state is a function from  *)
(* the flat lane index 5x+y (0..24) to lanes.                              *)
(***************************************************************************)
EXTENDS Integers, Sequences, FiniteSets, TLC

(***************************************************************************)
(* Program constants.                                                      *)
(***************************************************************************)
LANE_BITS == 64
PERMUTATION == 24
NEXT_INPUTS_LANES == 17
STATE_LANES == 25
B9 == 9
B13 == 13
CHUNK_WIDTH == 4

Lanes == 0 .. (STATE_LANES - 1)

\* Rotation offsets of rho, indexed [x][y] (1-based in the tuple).
ROTATION_CONSTANTS ==
  << <<0, 36, 3, 41, 18>>,
     <<1, 44, 10, 45, 2>>,
     <<62, 6, 43, 15, 61>>,
     <<28, 55, 25, 21, 56>>,
     <<27, 20, 39, 8, 14>> >>

\* The 24 round constants, each as the set of its 1 bits.
ROUND_CONSTANTS ==
  << {0}, {1, 7, 15}, {1, 3, 7, 15, 63}, {15, 31, 63}, {0, 1, 3, 7, 15},
     {0, 31}, {0, 7, 15, 31, 63}, {0, 3, 15, 63}, {1, 3, 7}, {3, 7},
     {0, 3, 15, 31}, {1, 3, 31}, {0, 1, 3, 7, 15, 31}, {0, 1, 3, 7, 63},
     {0, 3, 7, 15, 63}, {0, 1, 15, 63}, {1, 15, 63}, {7, 63}, {1, 3, 15},
     {1, 3, 31, 63}, {0, 7, 15, 31, 63}, {7, 15, 63}, {0, 31},
     {3, 15, 31, 63} >>

(***************************************************************************)
(* Bounds of the model: how many input states and next-input blocks the    *)
(* test harness draws from.                                                *)
(***************************************************************************)
NumInStates == 2
NumNextInputs == 2

(***************************************************************************)
(* Words.                                                                  *)
(***************************************************************************)
Xor(a, b) == (a \ b) \cup (b \ a)

rotate_left(w, r) == {(i + r) % LANE_BITS : i \in w}

rotate_right(w, r) == {(i + LANE_BITS - (r % LANE_BITS)) % LANE_BITS : i \in w}

\* A function value, evaluated once.
Eval(f) == IF f = <<>> THEN f ELSE f

Val(b, w) == [base |-> b, bits |-> w]

\* split_state_cells / state_to_biguint: the values of a state of cells.
Values(st) == [i \in DOMAIN st |-> Val(st[i].base, st[i].bits)]

(***************************************************************************)
(* KeccakFArith: the plain evaluator, on states of values.                 *)
(***************************************************************************)
theta(a) ==
  LET c == Eval([x \in 0..4 |->
             Xor(Xor(Xor(Xor(a[5*x].bits, a[5*x + 1].bits), a[5*x + 2].bits),
                     a[5*x + 3].bits), a[5*x + 4].bits)])
      d == Eval([x \in 0..4 |->
             Xor(c[(x + 4) % 5], rotate_left(c[(x + 1) % 5], 1))])
  IN  Eval([i \in Lanes |-> Val(a[i].base, Xor(a[i].bits, d[i \div 5]))])

rho(a) ==
  Eval([i \in Lanes |->
     LET x == i \div 5
         y == i % 5
     IN  Val(B9, rotate_left(a[5*x + y].bits, ROTATION_CONSTANTS[x + 1][y + 1]))])

pi(a) ==
  Eval([i \in Lanes |->
     LET x == i \div 5
         y == i % 5
     IN  a[5*y + ((2*x + 3*y) % 5)]])

xi(a) ==
  Eval([i \in Lanes |->
     LET x == i \div 5
         y == i % 5
     IN  Val(a[i].base,
             Xor(a[i].bits, a[5*((x + 2) % 5) + y].bits \ a[5*((x + 1) % 5) + y].bits))])

iota_b9(a, rc) == Eval([a EXCEPT ![0] = Val(a[0].base, Xor(a[0].bits, rc))])

convert_b9_lane_to_b13(v) == Val(B13, v.bits)

absorb(a, next_input) ==
  Eval([i \in Lanes |->
     IF i < NEXT_INPUTS_LANES
       THEN Val(a[i].base, Xor(a[i].bits, next_input[i].bits))
       ELSE a[i]])

None == <<>>

Some(x) == <<x>>

mixing(a, next_input, rc) ==
  IF next_input = None
    THEN LET s == iota_b9(a, rc)
         IN  Eval([i \in Lanes |-> convert_b9_lane_to_b13(s[i])])
    ELSE LET s == absorb(a, next_input[1])
             t == Eval([i \in Lanes |-> convert_b9_lane_to_b13(s[i])])
         IN  iota_b9(t, rc)

\* e, with the function value b evaluated first.
EvalThen(b, e) == IF b = <<>> THEN e ELSE e

RECURSIVE permute_rounds(_, _, _)
permute_rounds(a, next_input, i) ==
  LET s4 == xi(pi(rho(theta(a))))
  IN  IF i = PERMUTATION - 1
        THEN mixing(s4, next_input, ROUND_CONSTANTS[PERMUTATION])
        ELSE LET s5 == iota_b9(s4, ROUND_CONSTANTS[i + 1])
                 b == Eval([k \in Lanes |-> convert_b9_lane_to_b13(s5[k])])
             IN  EvalThen(b, permute_rounds(b, next_input, i + 1))

permute_and_absorb(a, next_input) == permute_rounds(a, next_input, 0)

(***************************************************************************)
(* State.                                                                  *)
(***************************************************************************)
VARIABLES
  \* the test harness (circuit.rs, tests::test_keccak_round)
  in_state,            \* the witnessed input cells
  flag,                \* is_mixing
  next_mixing,         \* the witnessed next-input cells
  out_state_mix,       \* permute_and_absorb(in_state, Some(next_input))
  out_state_non_mix,   \* permute_and_absorb(in_state, None)
  tables,              \* the lookup tables: how often loaded, and their rows
  claimed,             \* the out_state handed to the final constrain_out_state
  \* KeccakFConfig::assign_permutation
  pc,                  \* the position in assign_permutation / synthesize
  round_idx,           \* the loop variable
  state,               \* the local variable `state`
  next_cell,           \* the next cell the layouter hands out
  regions,             \* the "Constraint out_state and out_mixing" regions
  result,              \* what assign_permutation returned
  \* history of the steps applied
  trace,               \* one record per step applied, in order
  step_in,             \* the state the latest step was applied to
  prev_out,            \* the output of the step before the latest step
  last_out,            \* the output of the latest step
  \* RhoConfig::assign_rotation_checks, lane by lane
  rpc,                 \* the position in assign_rotation_checks
  previous_state,      \* its argument
  lane_and_bcs,        \* the (lane, block count) pairs assigned so far
  final_calls,         \* the block-count arrays handed to the final check
  rresult              \* what assign_rotation_checks returned

inputs == <<in_state, flag, next_mixing, out_state_mix, out_state_non_mix>>
harness == <<inputs, tables>>
seqvars_but_pc == <<claimed, round_idx, state, next_cell, regions, result,
                    trace, step_in, prev_out, last_out>>
seqvars == <<pc, seqvars_but_pc>>
rhovars == <<rpc, previous_state, lane_and_bcs, final_calls, rresult>>
vars == <<harness, seqvars, rhovars>>

(***************************************************************************)
(* Cells.                                                                  *)
(***************************************************************************)
Lane(c, v) == [cell |-> c, base |-> v.base, bits |-> v.bits]

\* A step's assign_state: 25 cells, the first of them c0, holding vals.
assign_state(vals, c0) == [i \in DOMAIN vals |-> Lane(c0 + i, vals[i])]

CellsOf(st) == {st[i].cell : i \in DOMAIN st}

(***************************************************************************)
(* Lookup tables.                                                          *)
(***************************************************************************)
\* The tables KeccakFConfig owns: the fields stackable, rho_config (its
\* tables) and from_b9_table.
KeccakTables == {"stackable", "rho_config", "from_b9_table"}

\* The tables the test circuit owns besides its keccak_config.
HarnessTables == {"table_b2_b9", "table_b9_b13"}

Tables == KeccakTables \cup HarnessTables

\* The rows of a table: the (input digit, output digit) pairs of a chunk
\* of one digit.
TableRows(t) ==
  CASE t = "table_b2_b9" -> {<<d, d>> : d \in 0..1}
    [] t \in {"from_b9_table", "table_b9_b13"} -> {<<d, d % 2>> : d \in 0 .. (B9 - 1)}
    [] t = "rho_config" -> {<<d, d % 2>> : d \in 0 .. (B13 - 1)}
    [] t = "stackable" -> {<<d, d>> : d \in 0 .. CHUNK_WIDTH}

\* Before any load: no table has rows.
NoTables == [t \in Tables |-> [loads |-> 0, rows |-> {}]]

\* One table's load: its rows are assigned.
LoadTable(tbls, t) ==
  [tbls EXCEPT ![t] = [loads |-> @.loads + 1, rows |-> @.rows \cup TableRows(t)]]

RECURSIVE LoadEach(_, _, _)
\* The first n tables of the sequence ts loaded, in order.
LoadEach(tbls, ts, n) ==
  IF n = 0 THEN tbls ELSE LoadTable(LoadEach(tbls, ts, n - 1), ts[n])

loadStackableTwice(tbls, n) ==
  LoadEach(tbls, <<"stackable", "rho_config", "stackable">>, n)

\* KeccakFConfig::load, its first n loads done:
\* self.stackable.load(layouter)?; self.rho_config.load(layouter)?;
\* self.from_b9_table.load(layouter)
load(tbls, n) ==
  LoadEach(tbls, <<"stackable", "rho_config", "from_b9_table">>, n)

\* the number of loads KeccakFConfig::load makes
NumLoads == 3

\* synthesize: config.table_b2_b9.load(..)?; config.table_b9_b13.load(..)?;
harness_load(tbls, n) ==
  LoadEach(tbls, <<"table_b2_b9", "table_b9_b13">>, n)

\* the number of loads synthesize makes itself
NumHarnessLoads == 2

(***************************************************************************)
(* The inputs the harness draws.                                           *)
(***************************************************************************)
\* Input state k, in base 13; k = 0 is the harness's own (lane (0,0) = 1).
InStateValues(k) ==
  [i \in Lanes |->
     Val(B13, IF k = 0 THEN (IF i = 0 THEN {0} ELSE {})
              ELSE (IF i % (k + 1) = 0 THEN {(i + k) % LANE_BITS, k} ELSE {}))]

\* Next-input block k; k = 0 is the default (all zero), k = 1 the harness's
\* own (lane (0,0) = 2).
NextInputValues(k) ==
  [i \in 0 .. (NEXT_INPUTS_LANES - 1) |->
     Val(B9, IF k = 0 THEN {}
             ELSE (IF i < k THEN {(i + k) % LANE_BITS} ELSE {}))]

(***************************************************************************)
(* RhoConfig (gates/rho.rs).                                               *)
(***************************************************************************)
RECURSIVE SumUpTo(_, _, _)
\* f[0][k] + ... + f[n][k]
SumUpTo(f, n, k) == IF n < 0 THEN 0 ELSE f[n][k] + SumUpTo(f, n - 1, k)

\* The chunks a lane is cut into: the digit positions where each starts.
ChunkStarts == {p \in 0 .. (LANE_BITS - 1) : p % CHUNK_WIDTH = 0}

\* LaneRotateConversionConfig::assign_region of the config of position pos:
\* the lane rotated left by the position's offset and converted to base 9,
\* in cell c, and the lane's block-count pair: how many chunks the rotation
\* carried whole across the top digit, and how many it cut in two there.
LaneRotateConversion(pos, lane, c) ==
  LET r == ROTATION_CONSTANTS[pos[1] + 1][pos[2] + 1]
      whole == {p \in ChunkStarts : p + r >= LANE_BITS}
      cut == {p \in ChunkStarts : p + r < LANE_BITS /\ p + CHUNK_WIDTH - 1 + r >= LANE_BITS}
  IN  << Lane(c, Val(B9, rotate_left(lane.bits, r))),
         <<Cardinality(whole), Cardinality(cut)>> >>

\* What the final check expects of one position, from its offset alone.
ExpectedBlockCount(x, y) ==
  LET r == ROTATION_CONSTANTS[x + 1][y + 1]
  IN  <<r \div CHUNK_WIDTH, IF r % CHUNK_WIDTH = 0 THEN 0 ELSE 1>>

ExpectedBlockCounts == [i \in Lanes |-> ExpectedBlockCount(i \div 5, i % 5)]

\* BlockCountFinalConfig: the gate over the 25 block-count pairs it is given.
BlockCountFinalGate(bcs) ==
  /\ DOMAIN bcs = Lanes
  /\ \A k \in 1..2 :
       SumUpTo(bcs, STATE_LANES - 1, k) = SumUpTo(ExpectedBlockCounts, STATE_LANES - 1, k)

\* The values a block-count pair can take.
BlockCountRange == (0 .. (LANE_BITS \div CHUNK_WIDTH)) \X (0..1)

LaneConfigPositionSwapped(idx) == <<idx % 5, idx \div 5>>

\* RhoConfig::configure: state_rotate_convert_configs[idx] is the config of
\* position (x, y), the idx-th pair of (0..5) x (0..5).
LaneConfigPosition(idx) == <<idx \div 5, idx % 5>>

\* One turn of the closure of assign_rotation_checks: lane idx.
RotateLane(idx, lane, c0) == LaneRotateConversion(LaneConfigPosition(idx), lane, c0 + idx)

block_countsDropLast(lbs) ==
  [idx \in DOMAIN lbs |->
     IF idx = STATE_LANES - 1 THEN ExpectedBlockCounts[idx] ELSE lbs[idx][2]]

\* let block_counts = lane_and_bcs.clone().map(|(_, bc)| bc);
block_counts(lbs) == [idx \in DOMAIN lbs |-> lbs[idx][2]]

next_state_ofReversed(lbs) == [idx \in DOMAIN lbs |-> lbs[STATE_LANES - 1 - idx][1]]

\* let next_state = lane_and_bcs.map(|(lane_next_row, _)| lane_next_row);
next_state_of(lbs) == [idx \in DOMAIN lbs |-> lbs[idx][1]]

\* assign_rotation_checks with every assignment succeeding: its next_state.
assign_rotation_checks(st, c0) ==
  next_state_of([idx \in Lanes |-> RotateLane(idx, st[idx], c0)])

(***************************************************************************)
(* KeccakFConfig (permutation/circuit.rs): the steps of assign_permutation.*)
(***************************************************************************)
\* The state each step is applied to: the local variable `state`.
ThetaIn == state

RhoIn == state

PiIn == state

XiInStale == step_in

XiIn == state

IotaIn == state

BaseConvIn == state

MixingIn == state

\* theta: KeccakFArith::theta outside the circuit, then ThetaConfig::assign_state.
ThetaOut(arg, c0) == assign_state(theta(Values(arg)), c0)

\* rho: RhoConfig::assign_rotation_checks.
RhoOut(arg, c0) == assign_rotation_checks(arg, c0)

\* pi_gate_permutation: the lanes re-indexed, no cell assigned.
pi_gate_permutation(st) == pi(st)

PiOutSkipped(arg) == arg

\* state = pi_gate_permutation(state.clone());
PiOut(arg) == pi_gate_permutation(arg)

XiOutValueDependent(arg, c0) ==
  assign_state(xi(Values(arg)), c0 + Cardinality(arg[0].bits))

\* xi: KeccakFArith::xi outside the circuit, then XiConfig::assign_state.
XiOut(arg, c0) == assign_state(xi(Values(arg)), c0)

IsLastRoundEarly(r) == r = PERMUTATION - 2

\* if round_idx == PERMUTATION - 1 { break; }
IsLastRound(r) == r = PERMUTATION - 1

IotaConstantIdxNext(r) == r + 1

\* the index into a4_times_round_constants_b9
IotaConstantIdx(r) == r

\* IotaConstants::a4_times_round_constants_b9[i]
a4_times_round_constants_b9(i) == ROUND_CONSTANTS[i + 1]

\* GenericConfig::add_fixed: a new cell c holding lane + the fixed value.
add_fixed(lane, fixed, c) == Lane(c, Val(lane.base, Xor(lane.bits, fixed)))

IotaOutInPlace(st, c0, i) ==
  [st EXCEPT ![0] = Lane(st[0].cell,
                         Val(st[0].base, Xor(st[0].bits, a4_times_round_constants_b9(i))))]

IotaOutLaneOne(st, c0, i) ==
  [st EXCEPT ![1] = add_fixed(st[1], a4_times_round_constants_b9(i), c0)]

\* state[0] = self.generic.add_fixed(layouter, state[0].clone(), constant)?;
IotaOut(st, c0, i) ==
  [st EXCEPT ![0] = add_fixed(st[0], a4_times_round_constants_b9(i), c0)]

\* || Ok(F::one())
ActivationFlagValue == 1

\* BaseConversionConfig::assign_state: with the flag set every lane is
\* converted from base 9 to base 13; with it unset the lane passes through.
base_conversion_assign_state(st, activation_flag, c0) ==
  [i \in DOMAIN st |->
     Lane(c0 + i, IF activation_flag = 1
                    THEN convert_b9_lane_to_b13(Val(st[i].base, st[i].bits))
                    ELSE Val(st[i].base, st[i].bits))]

BaseConvOutInactive(arg, c0) == base_conversion_assign_state(arg, 0, c0 + 1)

\* the activation flag takes cell c0, the converted lanes the 25 after it
BaseConvOut(arg, c0) == base_conversion_assign_state(arg, ActivationFlagValue, c0 + 1)

MixingNextInputInverted(fl, nm) == IF fl THEN None ELSE Some(Values(nm))

\* if !flag { None } else { Some(state_to_state_bigint(next_mixing)) }
MixingNextInput(fl, nm) == IF ~fl THEN None ELSE Some(Values(nm))

\* the index of *ROUND_CONSTANTS.last().unwrap()
LastRoundConstantIdx == Len(ROUND_CONSTANTS) - 1

\* let mix_res = KeccakFArith::mixing(state, next input, last round constant);
MixRes(arg, fl, nm) ==
  mixing(Values(arg), MixingNextInput(fl, nm), ROUND_CONSTANTS[LastRoundConstantIdx + 1])

\* The difference of two field elements: 0 exactly when they are the same
\* element.  The encodings of a word in two bases are the same element
\* only for the words 0 and 1.
Sub(u, v) ==
  IF u.bits = v.bits /\ (u.base = v.base \/ u.bits \subseteq {0}) THEN 0 ELSE 1

\* constrain_out_state: the region (q_out enabled at offset 0, out_mixing
\* copied into row 0, out_state witnessed in row 1) and the cells of row 1.
constrain_out_state(out_mixing, out_state, c0) ==
  [region |-> [q_out |-> {0}, rows |-> <<Values(out_mixing), out_state>>],
   out    |-> assign_state(out_state, c0 + STATE_LANES)]

OutStateGateShort(region) ==
  \A offset \in region.q_out :
    \A idx \in 0 .. (STATE_LANES - 2) :
      Sub(region.rows[offset + 1][idx], region.rows[offset + 2][idx]) = 0

\* The gate "Constraint out_state correctness":
\* q_out * (state[idx] at cur - state[idx] at next), for idx in 0..25.
OutStateGate(region) ==
  \A offset \in region.q_out :
    \A idx \in 0 .. (STATE_LANES - 1) :
      Sub(region.rows[offset + 1][idx], region.rows[offset + 2][idx]) = 0

\* MockProver::verify, as far as the out_state gate goes.
Verified == \A k \in 1 .. Len(regions) : OutStateGate(regions[k])

(***************************************************************************)
(* The sequencer as a state machine.                                       *)
(***************************************************************************)
NoResult == [kind |-> "none", out |-> <<>>]

Entry(op, r, rc, act) == [op |-> op, round |-> r, rc |-> rc, act |-> act]

\* What every applied step leaves in the history.
Applied(op, rc, act, arg, out) ==
  /\ trace' = Append(trace, Entry(op, round_idx, rc, act))
  /\ step_in' = arg
  /\ prev_out' = last_out
  /\ last_out' = out

\* A failing assignment ends the operation: `?` returns the error ("Err"),
\* unwrap() panics ("panic").
Failed(kind) ==
  /\ pc' = "failed"
  /\ result' = [kind |-> kind, out |-> <<>>]
  /\ UNCHANGED <<claimed, round_idx, state, next_cell, regions,
                 trace, step_in, prev_out, last_out>>

\* The harness computes the expected outputs with the plain evaluator;
\* synthesize starts with every table unloaded, loads the tables and
\* witnesses in_state and next_inputs; assign_permutation starts with
\* `let mut state = in_state`.
Init ==
  \E k \in 0 .. (NumInStates - 1), f \in BOOLEAN, n \in 0 .. (NumNextInputs - 1) :
    /\ in_state = assign_state(InStateValues(k), 0)
    /\ flag = f
    /\ next_mixing = assign_state(NextInputValues(n), STATE_LANES)
    /\ out_state_mix = permute_and_absorb(InStateValues(k), Some(NextInputValues(n)))
    /\ out_state_non_mix = permute_and_absorb(InStateValues(k), None)
    /\ tables = NoTables
    /\ claimed = <<>>
    /\ pc = "load_tables"
    /\ round_idx = 0
    /\ state = assign_state(InStateValues(k), 0)
    /\ next_cell = STATE_LANES + NEXT_INPUTS_LANES
    /\ regions = <<>>
    /\ result = NoResult
    /\ trace = <<>>
    /\ step_in = <<>>
    /\ prev_out = <<>>
    /\ last_out = assign_state(InStateValues(k), 0)
    /\ rpc = "idle"
    /\ previous_state = <<>>
    /\ lane_and_bcs = <<>>
    /\ final_calls = <<>>
    /\ rresult = NoResult

\* A load that fails ends synthesize with the error (`?`); the tables
\* loaded before it stay loaded.
SynthesizeFailed ==
  /\ pc' = "synthesize_failed"
  /\ UNCHANGED <<inputs, seqvars_but_pc, rhovars>>

\* synthesize: the test circuit loads its own two tables.
LoadHarnessTables ==
  /\ pc = "load_tables"
  /\ \/ /\ tables' = harness_load(tables, NumHarnessLoads)
        /\ pc' = "load"
        /\ UNCHANGED <<inputs, seqvars_but_pc, rhovars>>
     \/ \E n \in 0 .. (NumHarnessLoads - 1) :
          /\ tables' = harness_load(tables, n)
          /\ SynthesizeFailed

\* synthesize: config.keccak_config.load(&mut layouter)?; the input state
\* and the next inputs are then witnessed and assign_permutation called.
Load ==
  /\ pc = "load"
  /\ \/ /\ tables' = load(tables, NumLoads)
        /\ pc' = "theta"
        /\ UNCHANGED <<inputs, seqvars_but_pc, rhovars>>
     \/ \E n \in 0 .. (NumLoads - 1) :
          /\ tables' = load(tables, n)
          /\ SynthesizeFailed

Theta ==
  /\ pc = "theta"
  /\ \/ LET out == ThetaOut(ThetaIn, next_cell)
        IN  /\ state' = out
            /\ Applied("theta", -1, -1, ThetaIn, out)
            /\ next_cell' = next_cell + STATE_LANES
            /\ pc' = "rho"
            /\ UNCHANGED <<claimed, round_idx, regions, result>>
     \/ Failed("Err")
  /\ UNCHANGED <<harness, rhovars>>

\* assign_rotation_checks as one step of the sequencer: a lane whose
\* assign_region fails is unwrapped (rho.rs, line 54), the final block
\* count check is propagated with `?`.
Rho ==
  /\ pc = "rho"
  /\ \/ LET out == RhoOut(RhoIn, next_cell)
        IN  /\ state' = out
            /\ Applied("rho", -1, -1, RhoIn, out)
            /\ next_cell' = next_cell + STATE_LANES
            /\ pc' = "pi"
            /\ UNCHANGED <<claimed, round_idx, regions, result>>
     \/ \E idx \in Lanes : Failed("panic")
     \/ Failed("Err")
  /\ UNCHANGED <<harness, rhovars>>

Pi ==
  /\ pc = "pi"
  /\ LET out == PiOut(PiIn)
     IN  /\ state' = out
         /\ Applied("pi", -1, -1, PiIn, out)
         /\ pc' = "xi"
         /\ UNCHANGED <<claimed, round_idx, next_cell, regions, result>>
  /\ UNCHANGED <<harness, rhovars>>

Xi ==
  /\ pc = "xi"
  /\ \/ LET out == XiOut(XiIn, next_cell)
        IN  /\ state' = out
            /\ Applied("xi", -1, -1, XiIn, out)
            /\ next_cell' = next_cell + STATE_LANES
            /\ pc' = IF IsLastRound(round_idx) THEN "mixing" ELSE "iota"
            /\ UNCHANGED <<claimed, round_idx, regions, result>>
     \/ Failed("Err")
  /\ UNCHANGED <<harness, rhovars>>

Iota ==
  /\ pc = "iota"
  /\ \/ LET out == IotaOut(IotaIn, next_cell, IotaConstantIdx(round_idx))
        IN  /\ state' = out
            /\ Applied("iota", IotaConstantIdx(round_idx), -1, IotaIn, out)
            /\ next_cell' = next_cell + 1
            /\ pc' = "base_conv"
            /\ UNCHANGED <<claimed, round_idx, regions, result>>
     \/ Failed("Err")
  /\ UNCHANGED <<harness, rhovars>>

\* The activation flag is assigned, then the state converted; the loop
\* then goes to its next turn.
BaseConv ==
  /\ pc = "base_conv"
  /\ \/ LET out == BaseConvOut(BaseConvIn, next_cell)
        IN  /\ state' = out
            /\ Applied("base_conv", -1, ActivationFlagValue, BaseConvIn, out)
            /\ next_cell' = next_cell + 1 + STATE_LANES
            /\ round_idx' = round_idx + 1
            /\ pc' = "theta"
            /\ UNCHANGED <<claimed, regions, result>>
     \/ Failed("Err")
  /\ UNCHANGED <<harness, rhovars>>

\* The mixing step: mix_res is computed outside the circuit and assigned
\* by MixingConfig::assign_state (25 cells); the operation then returns
\* constrain_out_state(mix_res, out_state), out_state being the values of
\* mix_res that were handed to MixingConfig::assign_state.
Mixing ==
  /\ pc = "mixing"
  /\ \/ LET mix_res == MixRes(MixingIn, flag, next_mixing)
            bound == constrain_out_state(assign_state(mix_res, next_cell), mix_res,
                                         next_cell + STATE_LANES)
        IN  /\ Applied("mixing", LastRoundConstantIdx, -1, MixingIn, bound.out)
            /\ regions' = Append(regions, bound.region)
            /\ next_cell' = next_cell + 3 * STATE_LANES
            /\ result' = [kind |-> "Ok", out |-> bound.out]
            /\ pc' = "returned"
            /\ UNCHANGED <<claimed, round_idx, state>>
     \/ Failed("Err")
  /\ UNCHANGED <<harness, rhovars>>

\* A single lane of a state with one bit flipped.
Corrupt(o, j) == [o EXCEPT ![j] = Val(o[j].base, Xor(o[j].bits, {j}))]

\* The outputs a prover may claim: the evaluator's, with and without
\* absorption, and the right one with a bit of one lane flipped.
ClaimedOutputs ==
  {out_state_mix, out_state_non_mix}
    \cup {Corrupt(IF flag THEN out_state_mix ELSE out_state_non_mix, j) : j \in Lanes}

\* synthesize: constrain_out_state(out_state_obtained, self.out_state).
ConstrainOutState ==
  /\ pc = "returned"
  /\ \/ \E o \in ClaimedOutputs :
          /\ claimed' = o
          /\ regions' = Append(regions, constrain_out_state(result.out, o, next_cell).region)
          /\ next_cell' = next_cell + 2 * STATE_LANES
          /\ pc' = "done"
          /\ UNCHANGED <<round_idx, state, result, trace, step_in, prev_out, last_out>>
     \/ /\ pc' = "synthesize_failed"
        /\ UNCHANGED <<claimed, round_idx, state, next_cell, regions, result,
                       trace, step_in, prev_out, last_out>>
  /\ UNCHANGED <<harness, rhovars>>

Next ==
  \/ LoadHarnessTables
  \/ Load
  \/ Theta
  \/ Rho
  \/ Pi
  \/ Xi
  \/ Iota
  \/ BaseConv
  \/ Mixing
  \/ ConstrainOutState

Spec == Init /\ [][Next]_vars

(***************************************************************************)
(* assign_rotation_checks lane by lane (gates/rho.rs), followed by a       *)
(* prover who alters the block-count pair of one lane.                     *)
(***************************************************************************)
NumAssigned == Cardinality(DOMAIN lane_and_bcs)

\* test_rho_gate: the input of rho is theta of an input state.
InitRho ==
  \E k \in 0 .. (NumInStates - 1) :
    /\ previous_state = assign_state(theta(InStateValues(k)), 0)
    /\ rpc = "lanes"
    /\ lane_and_bcs = <<>>
    /\ final_calls = <<>>
    /\ rresult = NoResult
    /\ in_state = <<>>
    /\ flag = FALSE
    /\ next_mixing = <<>>
    /\ out_state_mix = <<>>
    /\ out_state_non_mix = <<>>
    /\ tables = NoTables
    /\ claimed = <<>>
    /\ pc = "idle"
    /\ round_idx = 0
    /\ state = <<>>
    /\ next_cell = STATE_LANES
    /\ regions = <<>>
    /\ result = NoResult
    /\ trace = <<>>
    /\ step_in = <<>>
    /\ prev_out = <<>>
    /\ last_out = <<>>

\* One turn of the closure: lane idx = NumAssigned is rotated by its config;
\* a failing assign_region is unwrapped.
AssignLane ==
  /\ rpc = "lanes"
  /\ \/ LET idx == NumAssigned
            pair == RotateLane(idx, previous_state[idx], next_cell)
        IN  /\ lane_and_bcs' = [i \in 0 .. idx |-> IF i = idx THEN pair ELSE lane_and_bcs[i]]
            /\ rpc' = IF idx = STATE_LANES - 1 THEN "final" ELSE "lanes"
            /\ UNCHANGED <<final_calls, rresult>>
     \/ /\ rpc' = "failed"
        /\ rresult' = [kind |-> "panic", out |-> <<>>]
        /\ UNCHANGED <<lane_and_bcs, final_calls>>
  /\ UNCHANGED <<harness, seqvars, previous_state>>

\* self.final_block_count_config.assign_region(.., block_counts)?;
\* Ok(next_state)
FinalBlockCount ==
  /\ rpc = "final"
  /\ final_calls' = Append(final_calls, block_counts(lane_and_bcs))
  /\ \/ /\ rpc' = "done"
        /\ rresult' = [kind |-> "Ok", out |-> next_state_of(lane_and_bcs)]
     \/ /\ rpc' = "failed"
        /\ rresult' = [kind |-> "Err", out |-> <<>>]
  /\ UNCHANGED <<harness, seqvars, previous_state, lane_and_bcs>>

\* The block counts the final gate reads: the cells of the lanes' pairs.
AggregateAccepts == BlockCountFinalGate(block_counts(lane_and_bcs))

\* A prover changes the block-count pair of a single lane of an accepted
\* assignment.
Tamper ==
  /\ rpc = "done"
  /\ AggregateAccepts
  /\ \E idx \in Lanes, pair \in BlockCountRange :
       /\ pair # lane_and_bcs[idx][2]
       /\ lane_and_bcs' = [lane_and_bcs EXCEPT ![idx] = <<lane_and_bcs[idx][1], pair>>]
  /\ rpc' = "tampered"
  /\ UNCHANGED <<harness, seqvars, previous_state, final_calls, rresult>>

NextRho ==
  \/ AssignLane
  \/ FinalBlockCount
  \/ Tamper

SpecRho == InitRho /\ [][NextRho]_vars

(***************************************************************************)
(* Properties of the sequencer (specification Spec).                       *)
(***************************************************************************)
LastEntry == trace[Len(trace)]

CountOf(op) == Cardinality({k \in 1 .. Len(trace) : trace[k].op = op})

\* f may directly follow e in one permutation.
Follows(e, f) ==
  \/ e.op = "theta" /\ f.op = "rho" /\ f.round = e.round
  \/ e.op = "rho" /\ f.op = "pi" /\ f.round = e.round
  \/ e.op = "pi" /\ f.op = "xi" /\ f.round = e.round
  \/ e.op = "xi" /\ e.round < 23 /\ f.op = "iota" /\ f.round = e.round
  \/ e.op = "iota" /\ f.op = "base_conv" /\ f.round = e.round
  \/ e.op = "base_conv" /\ f.op = "theta" /\ f.round = e.round + 1
  \/ e.op = "xi" /\ e.round = 23 /\ f.op = "mixing"

\* C1: within every round the steps run in the order theta, rho, pi, xi and,
\* in the non-final rounds, iota then base conversion; mixing follows the
\* last round's xi; and every step is applied to exactly the state the step
\* immediately before it output (the first one to the input state).
C1_StepOrderAndDataFlow ==
  /\ trace # <<>> => (trace[1].op = "theta" /\ trace[1].round = 0)
  /\ \A k \in 1 .. (Len(trace) - 1) : Follows(trace[k], trace[k + 1])
  /\ trace # <<>> => step_in = prev_out
  /\ Len(trace) = 1 => step_in = in_state

C1_Witness ==
  /\ pc = "returned"
  /\ LastEntry.op = "mixing"
  /\ step_in = prev_out
  /\ trace[Len(trace) - 1].op = "xi"

\* C2: a successful assign_permutation has applied theta, rho, pi and xi 24
\* times each, iota and base conversion 23 times each (rounds 1..23 only,
\* never in the 24th) and mixing once, directly after the 24th xi.
C2_StepCounts ==
  /\ \A k \in 1 .. Len(trace) :
       /\ trace[k].op \in {"iota", "base_conv"} => trace[k].round < 23
       /\ trace[k].op = "mixing" =>
            /\ k = Len(trace)
            /\ k > 1
            /\ trace[k - 1].op = "xi"
            /\ Cardinality({j \in 1 .. k : trace[j].op = "xi"}) = 24
  /\ pc = "returned" =>
       /\ result.kind = "Ok"
       /\ \A op \in {"theta", "rho", "pi", "xi"} : CountOf(op) = 24
       /\ \A op \in {"iota", "base_conv"} : CountOf(op) = 23
       /\ CountOf("mixing") = 1
       /\ Len(trace) = 143

C2_Witness ==
  /\ pc = "returned"
  /\ CountOf("xi") = 24
  /\ CountOf("iota") = 23
  /\ CountOf("mixing") = 1

\* The steps that used a round constant, in order.
ConstantUses == SelectSeq(trace, LAMBDA e : e.rc >= 0)

\* C3: the round constants are used once each and in order: the iota of
\* round index i uses constant i (0 <= i <= 22) and mixing uses the last
\* one, index 23.
C3_RoundConstantsInOrder ==
  /\ \A k \in 1 .. Len(ConstantUses) : ConstantUses[k].rc = k - 1
  /\ \A k \in 1 .. Len(trace) :
       /\ trace[k].op = "iota" => (trace[k].rc = trace[k].round /\ trace[k].rc <= 22)
       /\ trace[k].op = "mixing" => trace[k].rc = 23
       /\ trace[k].op \notin {"iota", "mixing"} => trace[k].rc = -1
  /\ pc = "returned" => Len(ConstantUses) = 24

C3_Witness ==
  /\ pc = "returned"
  /\ Len(ConstantUses) = 24
  /\ ConstantUses[23].op = "iota"
  /\ ConstantUses[24].op = "mixing"

TrueOutput == IF flag THEN out_state_mix ELSE out_state_non_mix

\* C5: the out_state gate of the final constrain_out_state holds exactly
\* when all 25 computed output cells (row 0, where q_out is enabled) equal
\* the claimed ones (row 1); a claimed output that is not the true output
\* never verifies.
C5_OutStateGateIffEqual ==
  pc = "done" =>
    LET r == regions[Len(regions)]
    IN  /\ r.q_out = {0}
        /\ r.rows[1] = Values(result.out)
        /\ r.rows[2] = claimed
        /\ OutStateGate(r) <=> (\A idx \in Lanes : Values(result.out)[idx] = claimed[idx])
        /\ Verified <=> (claimed = TrueOutput)

C5_Witness ==
  /\ pc = "done"
  /\ claimed # TrueOutput
  /\ \A idx \in 0..23 : claimed[idx] = TrueOutput[idx]
  /\ ~Verified

C9_FailureReturnsError ==
  pc = "failed" => (result.kind = "Err" /\ result.out = <<>>)

\* C10 (as claimed): every step outputs 25 lanes none of which is a lane of
\* its input state.
C10_AllLanesFresh ==
  trace # <<>> =>
    /\ DOMAIN last_out = Lanes
    /\ CellsOf(last_out) \cap CellsOf(step_in) = {}

\* C10 (amended): every step outputs 25 distinct lanes and changes no lane
\* of its input; theta, rho, xi, base conversion and mixing output 25 new
\* lanes; pi outputs the 25 lanes of its input, re-ordered; iota outputs a
\* new lane 0 and the lanes 1..24 of its input.
C10_FreshOrCarriedLanes ==
  trace # <<>> =>
    /\ DOMAIN last_out = Lanes
    /\ DOMAIN step_in = Lanes
    /\ Cardinality(CellsOf(last_out)) = 25
    /\ \A i \in Lanes, j \in Lanes :
         last_out[j].cell = step_in[i].cell => last_out[j] = step_in[i]
    /\ LastEntry.op \in {"theta", "rho", "xi", "base_conv", "mixing"} =>
         CellsOf(last_out) \cap CellsOf(step_in) = {}
    /\ LastEntry.op = "pi" =>
         {last_out[i] : i \in Lanes} = {step_in[i] : i \in Lanes}
    /\ LastEntry.op = "iota" =>
         /\ last_out[0].cell \notin CellsOf(step_in)
         /\ \A i \in 1..24 : last_out[i] = step_in[i]

C10_Witness ==
  /\ trace # <<>>
  /\ LastEntry.op = "iota"
  /\ last_out[0].cell \notin CellsOf(step_in)
  /\ last_out[0].bits # step_in[0].bits
  /\ \A i \in 1..24 : last_out[i] = step_in[i]

\* Table t has been populated once, with exactly its rows.
LoadedOnce(t) == tables[t] = [loads |-> 1, rows |-> TableRows(t)]

\* assign_permutation or constrain_out_state has started.
PermutationStarted ==
  \/ pc \in {"theta", "rho", "pi", "xi", "iota", "base_conv", "mixing",
             "returned", "done", "failed"}
  \/ trace # <<>>

\* C11: no table is ever populated more than once or with rows that are
\* not its own; from the first step of assign_permutation on, through
\* constrain_out_state, the stackable table, the rho tables and the base-9
\* table each have been populated exactly once, by load, and hold exactly
\* the rows load gave them.
C11_TablesLoadedOnce ==
  /\ \A t \in Tables :
       \/ tables[t] = [loads |-> 0, rows |-> {}]
       \/ LoadedOnce(t)
  /\ PermutationStarted => \A t \in KeccakTables : LoadedOnce(t)

C11_Witness ==
  /\ pc = "done"
  /\ Len(regions) = 2
  /\ CountOf("rho") = 24
  /\ \A t \in KeccakTables : LoadedOnce(t)

\* The steps of a non-final round, in order.
RoundSteps == <<"theta", "rho", "pi", "xi", "iota", "base_conv">>

\* The k-th step of a permutation, from k alone.
ExpectedEntry(k) ==
  LET r == (k - 1) \div Len(RoundSteps)
      op == RoundSteps[((k - 1) % Len(RoundSteps)) + 1]
  IN  IF r = PERMUTATION - 1 /\ op = "iota"
        THEN Entry("mixing", r, PERMUTATION - 1, -1)
        ELSE Entry(op, r, IF op = "iota" THEN r ELSE -1,
                   IF op = "base_conv" THEN 1 ELSE -1)

\* The first cell assigned in round r: the input state and the next
\* inputs come first; a non-final round assigns 25 cells in each of theta,
\* rho and xi, one in iota and 1 + 25 in the base conversion.
RoundFirstCell(r) ==
  STATE_LANES + NEXT_INPUTS_LANES + r * (4 * STATE_LANES + 2)

\* The cell of lane i of the output of step op of round r, from op, r and
\* i alone.
ExpectedCell(op, r, i) ==
  LET c == RoundFirstCell(r)
      x == i \div 5
      y == i % 5
  IN  CASE op = "theta" -> c + i
        [] op = "rho" -> c + STATE_LANES + i
        [] op = "pi" -> c + STATE_LANES + 5*y + ((2*x + 3*y) % 5)
        [] op = "xi" -> c + 2 * STATE_LANES + i
        [] op = "iota" -> IF i = 0 THEN c + 3 * STATE_LANES
                                   ELSE c + 2 * STATE_LANES + i
        [] op = "base_conv" -> c + 3 * STATE_LANES + 2 + i
        [] op = "mixing" -> c + 5 * STATE_LANES + i

\* The next free cell after step op of round r.
ExpectedNextCell(op, r) ==
  LET c == RoundFirstCell(r)
  IN  CASE op = "theta" -> c + STATE_LANES
        [] op \in {"rho", "pi"} -> c + 2 * STATE_LANES
        [] op = "xi" -> c + 3 * STATE_LANES
        [] op = "iota" -> c + 3 * STATE_LANES + 1
        [] op = "base_conv" -> RoundFirstCell(r + 1)
        [] op = "mixing" -> c + 6 * STATE_LANES

\* C12: the steps assign_permutation has applied (which step, in which
\* round, with which constant and activation flag), the cells each step
\* assigned its output to and the regions of the out_state gate are
\* determined by the number of steps applied alone: they are the same for
\* every input state, every value of the mixing flag and every next-input
\* block.
C12_StructureIndependentOfInputs ==
  /\ \A k \in 1 .. Len(trace) : trace[k] = ExpectedEntry(k)
  /\ Len(trace) <= (PERMUTATION * Len(RoundSteps)) - 1
  /\ trace # <<>> =>
       /\ \A i \in Lanes : last_out[i].cell = ExpectedCell(LastEntry.op, LastEntry.round, i)
       /\ pc # "done" => next_cell = ExpectedNextCell(LastEntry.op, LastEntry.round)
       /\ pc = "done" =>
            next_cell = ExpectedNextCell(LastEntry.op, LastEntry.round) + 2 * STATE_LANES
  /\ Len(regions) = (IF trace # <<>> /\ LastEntry.op = "mixing" THEN 1 ELSE 0)
                      + (IF pc = "done" THEN 1 ELSE 0)
  /\ \A k \in 1 .. Len(regions) : regions[k].q_out = {0}

C12_Witness ==
  /\ pc = "returned"
  /\ ~flag
  /\ in_state # assign_state(InStateValues(0), 0)
  /\ next_mixing # assign_state(NextInputValues(0), STATE_LANES)
  /\ trace[Len(trace)] = ExpectedEntry((PERMUTATION * Len(RoundSteps)) - 1)
  /\ \A i \in Lanes : last_out[i].cell = ExpectedCell("mixing", PERMUTATION - 1, i)

\* C14: the iota step runs in non-final rounds only, on the state xi
\* (chi) output; it changes lane (0,0), flat index 0, only: the new lane 0
\* holds the old value plus the constant of the round, and lanes 1..24 of
\* the state after it are the very lanes xi output.
C14_IotaChangesLaneZeroOnly ==
  (trace # <<>> /\ LastEntry.op = "iota") =>
    /\ LastEntry.round < PERMUTATION - 1
    /\ trace[Len(trace) - 1].op = "xi"
    /\ trace[Len(trace) - 1].round = LastEntry.round
    /\ step_in = prev_out
    /\ state = last_out
    /\ \A i \in Lanes \ {0} : last_out[i] = step_in[i]
    /\ last_out[0].base = step_in[0].base
    /\ last_out[0].bits = Xor(step_in[0].bits, ROUND_CONSTANTS[LastEntry.round + 1])

C14_Witness ==
  /\ trace # <<>>
  /\ LastEntry.op = "iota"
  /\ LastEntry.round = PERMUTATION - 2
  /\ last_out[0].bits = Xor(step_in[0].bits, ROUND_CONSTANTS[PERMUTATION - 1])
  /\ last_out[0].bits # step_in[0].bits
  /\ \E i \in Lanes \ {0} : step_in[i].bits # {}
  /\ \A i \in Lanes \ {0} : last_out[i] = prev_out[i]

\* C15: in each non-final round the base conversion runs on the state iota
\* output, with an activation flag of value 1: every lane of its output,
\* which is the state the next round's theta is applied to, is the base-13
\* conversion of the base-9 lane at the same index, none is left in base
\* 9; and the activation flag of every base conversion is 0 or 1.
C15_BaseConversionActive ==
  /\ \A k \in 1 .. Len(trace) :
       trace[k].op = "base_conv" =>
         /\ trace[k].act = 1
         /\ trace[k].act \in {0, 1}
         /\ trace[k].round < PERMUTATION - 1
         /\ k > 1
         /\ trace[k - 1].op = "iota"
         /\ trace[k - 1].round = trace[k].round
  /\ (trace # <<>> /\ LastEntry.op = "base_conv") =>
       /\ step_in = prev_out
       /\ state = last_out
       /\ pc \in {"theta", "failed"}
       /\ \A i \in Lanes :
            /\ step_in[i].base = B9
            /\ last_out[i].base = B13
            /\ Values(last_out)[i] = convert_b9_lane_to_b13(Values(step_in)[i])
  /\ (trace # <<>> /\ LastEntry.op = "theta" /\ LastEntry.round > 0) =>
       /\ trace[Len(trace) - 1].op = "base_conv"
       /\ \A i \in Lanes : step_in[i].base = B13

C15_Witness ==
  /\ trace # <<>>
  /\ LastEntry.op = "theta"
  /\ LastEntry.round = PERMUTATION - 1
  /\ trace[Len(trace) - 1].op = "base_conv"
  /\ trace[Len(trace) - 1].act = 1
  /\ \A i \in Lanes : step_in[i].base = B13
  /\ \E i \in Lanes : step_in[i].bits \notin {{}, {0}}

(***************************************************************************)
(* Properties of the rho step (specification SpecRho).                     *)
(***************************************************************************)
\* The rotation offset of the position of lane idx.
OffsetOf(idx) == ROTATION_CONSTANTS[(idx \div 5) + 1][(idx % 5) + 1]

LaneCounterSum(k) ==
  SumUpTo([i \in Lanes |-> lane_and_bcs[i][2]], STATE_LANES - 1, k)

ByPositionConfig(idx) ==
  LaneRotateConversion(<<idx \div 5, idx % 5>>, previous_state[idx], next_cell + idx)

\* C13: in one rho step the aggregate block-count check is never run
\* before all 25 lanes are assigned and never twice, and is run once when
\* the step ends after its lanes; it is given exactly 25 pairs, in lane
\* order; pair idx and output lane idx are the ones the rotation config of
\* position (idx div 5, idx mod 5) makes of input lane idx.
C13_AggregateOnceAfterAllLanes ==
  /\ Len(final_calls) <= 1
  /\ rpc \in {"lanes", "final"} => final_calls = <<>>
  /\ rpc = "final" => NumAssigned = STATE_LANES
  /\ rpc \in {"done", "tampered"} => Len(final_calls) = 1
  /\ rpc = "failed" => (Len(final_calls) = 1 <=> rresult.kind = "Err")
  /\ final_calls # <<>> =>
       /\ NumAssigned = STATE_LANES
       /\ DOMAIN final_calls[1] = Lanes
       /\ \A idx \in Lanes : final_calls[1][idx] = ByPositionConfig(idx)[2]
  /\ rpc # "tampered" =>
       \A idx \in DOMAIN lane_and_bcs : lane_and_bcs[idx] = ByPositionConfig(idx)
  /\ rpc = "done" =>
       /\ DOMAIN rresult.out = Lanes
       /\ \A idx \in Lanes : rresult.out[idx] = ByPositionConfig(idx)[1]

C13_Witness ==
  /\ rpc = "done"
  /\ Len(final_calls) = 1
  /\ final_calls[1][1] = <<9, 0>>
  /\ final_calls[1][5] = <<0, 1>>
  /\ previous_state[5].bits # {}
  /\ rresult.out[5].bits = rotate_left(previous_state[5].bits, 1)
  /\ rresult.out[5].bits # rresult.out[1].bits

====
